---- MODULE Spec2Model ----
(***************************************************************************)
(* Device topology bootstrap of evcc (cmd/setup.go) and the descriptor     *)
(* store of util/config (Config, ConfigDetail and their gorm operations).  *)
(*                                                                         *)
(* Strings that the code formats or re-cases (device names, attribute      *)
(* values, titles) are sequences of one-character strings, route paths are *)
(* sequences of path pieces; type tags, attribute keys and error kinds are *)
(* atomic strings.                                                         *)
(***************************************************************************)
EXTENDS Integers, Sequences, FiniteSets, Bags, TLC

VARIABLES
    db,         \* the gorm database: the rows of configs, the bag of rows of
                \* config_details, and the autoincrement counter seq
    lastOp,     \* the last store operation called and what it returned
    pc,         \* position of configureSiteAndLoadpoints (the sequencer)
    started,    \* sequence of the stages started so far
    failed,     \* the stages that returned an error or panicked, with the error
    err,        \* the error configureSiteAndLoadpoints returned or panicked with
    site,       \* the *core.Site returned ("nil" until the Site stage built it)
    registry,   \* config.Meters / Chargers / Vehicles: class -> sequence of devices
    res,        \* the handle collection of the class builder that ran last
    task,       \* state of the errgroup task of each handle of res
    gi,         \* the builder's loop index (handles 1..gi-1 passed validation)
    gerr,       \* errgroup: the first non-nil error returned by a task
    tariffs,    \* the tariff.Tariffs bundle returned by configureTariffs
    loadpoints, \* the loadpoints settings read and the loadpoints built from them
    auth,       \* configureAuth: [routes, lookup, published]
    declared    \* the static descriptors each class builder was called with

vars == <<db, lastOp, pc, started, failed, err, site, registry, res, task, gi,
          gerr, tariffs, loadpoints, auth, declared>>

storeVars == <<db, lastOp>>
bootVars == <<pc, started, failed, err, site, registry, res, task, gi, gerr,
              tariffs, loadpoints, auth, declared>>

----------------------------------------------------------------------------
(* Bounds of the model *)

MaxId == 2          \* ids the store hands out: 1..MaxId
MaxOps == 2         \* store operations per behaviour
MaxStatic == 2      \* statically declared descriptors per class

----------------------------------------------------------------------------
(* Strings and formatting *)

Digit == <<"0", "1", "2", "3", "4", "5", "6", "7", "8", "9">>

\* strconv.Itoa / fmt "%d" of a non-negative integer
RECURSIVE Itoa(_)
Itoa(n) ==
    IF n < 10 THEN <<Digit[n + 1]>>
    ELSE Itoa(n \div 10) \o <<Digit[(n % 10) + 1]>>

Lower == <<"a", "b", "c", "d", "t">>
Upper == <<"A", "B", "C", "D", "T">>

IsLower(c) == \E k \in 1..Len(Lower) : Lower[k] = c
IsUpper(c) == \E k \in 1..Len(Upper) : Upper[k] = c
IsDigit(c) == \E k \in 1..Len(Digit) : Digit[k] = c
\* strings.isSeparator: letters, digits and underscore are not separators
IsSeparator(c) == ~(IsLower(c) \/ IsUpper(c) \/ IsDigit(c) \/ c = "_")
ToTitle(c) == IF IsLower(c) THEN Upper[CHOOSE k \in 1..Len(Lower) : Lower[k] = c] ELSE c

\* strings.Title: the letters that begin words are mapped to title case
Title(s) ==
    [k \in 1..Len(s) |->
        IF k = 1 \/ IsSeparator(s[k - 1]) THEN ToTitle(s[k]) ELSE s[k]]

\* Go values of dynamic type (map[string]any): a string or an int
StrVal(s) == [t |-> "string", s |-> s, n |-> 0]
IntVal(n) == [t |-> "int", s |-> <<>>, n |-> n]

\* fmt.Sprintf("%v", v)
Sprintf(v) == IF v.t = "string" THEN v.s ELSE Itoa(v.n)

----------------------------------------------------------------------------
(* util/config: the descriptor store *)

NoClass == "none"                       \* the zero value of config.Class
Classes == {"charger", "meter", "vehicle"}

NoErr == "nil"
ErrRecordNotFound == "record not found"
ErrMissingWhereClause == "WHERE conditions required"
ErrEmptySlice == "empty slice found"
ErrEngine == "storage engine error"

\* config.NameForID
NameForID(id) == <<"d", "b", ":">> \o Itoa(id)

\* gorm: a struct condition constrains only by its non-zero fields
WhereConfig(rows, cond) ==
    {r \in rows : /\ (cond.ID # 0 => r.ID = cond.ID)
                  /\ (cond.Class # NoClass => r.Class = cond.Class)}

\* config_details has no unique index: the table is a bag of rows
WhereDetail(rows, configID) ==
    {r \in BagToSet(rows) : configID # 0 => r.ConfigID = configID}

\* the table without the rows of a set
DeleteRows(rows, gone) == [r \in BagToSet(rows) \ gone |-> rows[r]]

\* Preload("Details"): the attribute rows of one descriptor row
Preload(d, r) ==
    [ID |-> r.ID, Class |-> r.Class, Type |-> r.Type,
     Details |-> [kv \in {[Key |-> x.Key, Value |-> x.Value] :
                             x \in {y \in BagToSet(d.details) : y.ConfigID = r.ID}}
                    |-> d.details[[ConfigID |-> r.ID, Key |-> kv.Key, Value |-> kv.Value]]]]

ZeroConfig == [ID |-> 0, Class |-> NoClass, Type |-> "", Details |-> EmptyBag]

\* Config.detailsAsMap: of several details with one key, one value is kept
detailsAsMap(dev) ==
    [k \in {x.Key : x \in BagToSet(dev.Details)} |->
        StrVal((CHOOSE x \in BagToSet(dev.Details) : x.Key = k).Value)]

\* mapAsDetails, if the details were not given the id of their device
mapAsDetailsNoID(dev, config) ==
    {[ConfigID |-> 0, Key |-> k, Value |-> Sprintf(config[k])] : k \in DOMAIN config}

\* Config.mapAsDetails
mapAsDetails(dev, config) ==
    {[ConfigID |-> dev.ID, Key |-> k, Value |-> Sprintf(config[k])] :
        k \in DOMAIN config}

\* Config.Named
Named(dev) == [Name |-> NameForID(dev.ID), Type |-> dev.Type, Other |-> detailsAsMap(dev)]

\* Config.Typed
Typed(dev) == [Type |-> dev.Type, Other |-> detailsAsMap(dev)]

\* Order("id").Find: the rows as a sequence in ascending id
RECURSIVE OrderByID(_)
OrderByID(rows) ==
    IF rows = {} THEN <<>>
    ELSE LET r == CHOOSE x \in rows : \A y \in rows : x.ID <= y.ID
         IN  <<r>> \o OrderByID(rows \ {r})

\* RemoveWithoutDetails, if the test let every device pass
KeepAll(devices, i) == devices

\* the loop of ConfigurationsByClass that removes the devices without details
RECURSIVE RemoveWithoutDetails(_, _)
RemoveWithoutDetails(devices, i) ==
    IF i > Len(devices) THEN devices
    ELSE IF BagCardinality(devices[i].Details) > 0 THEN RemoveWithoutDetails(devices, i + 1)
    ELSE RemoveWithoutDetails(
            SubSeq(devices, 1, i - 1) \o SubSeq(devices, i + 1, Len(devices)), i)

\* config.ConfigurationsByClass
ConfigurationsByClass(d, class) ==
    LET found == OrderByID(WhereConfig(d.configs, [ID |-> 0, Class |-> class]))
        devices == [k \in 1..Len(found) |-> Preload(d, found[k])]
    IN  RemoveWithoutDetails(devices, 1)

\* config.ConfigByID: First orders by primary key and fails on no row
ConfigByID(d, id) ==
    LET rows == WhereConfig(d.configs, [ID |-> id, Class |-> NoClass])
    IN  IF rows = {} THEN [device |-> ZeroConfig, err |-> ErrRecordNotFound]
        ELSE [device |-> Preload(d, CHOOSE r \in rows : \A y \in rows : r.ID <= y.ID),
              err |-> NoErr]

\* db.Transaction, if the writes of a failed callback were kept
TransactionNoRollback(d, out) == out.db

\* db.Transaction: the callback's writes are kept only if it returns nil
Transaction(d, out) == IF out.err = NoErr THEN out.db ELSE d

\* config.AddConfig; fault is the statement the storage engine fails (0: none)
AddConfig(d, class, typ, config, fault) ==
    LET device == [ID |-> d.seq + 1, Class |-> class, Type |-> typ]
        d1 == [d EXCEPT !.configs = @ \cup {device}, !.seq = @ + 1]
        rows == mapAsDetails(device, config)
        d2 == [d1 EXCEPT !.details = @ (+) SetToBag(rows)]
        out == IF fault = 1 THEN [db |-> d, err |-> ErrEngine, id |-> 0]
               ELSE IF rows = {} THEN [db |-> d1, err |-> ErrEmptySlice, id |-> device.ID]
               ELSE IF fault = 2 THEN [db |-> d1, err |-> ErrEngine, id |-> device.ID]
               ELSE [db |-> d2, err |-> NoErr, id |-> device.ID]
    IN  [db |-> Transaction(d, out), err |-> out.err, id |-> out.id]

\* UpdateConfig, if the details of the id were not deleted first
UpdateConfigNoDelete(d, class, id, config, fault) ==
    LET found == WhereConfig(d.configs, [ID |-> id, Class |-> class])
        device == CHOOSE r \in found : \A y \in found : r.ID <= y.ID
        rows == mapAsDetails(device, config)
        d2 == [d EXCEPT !.details = @ (+) SetToBag(rows)]
        out == IF fault = 1 THEN [db |-> d, err |-> ErrEngine]
               ELSE IF found = {} THEN [db |-> d, err |-> ErrRecordNotFound]
               ELSE IF rows = {} THEN [db |-> d, err |-> ErrEmptySlice]
               ELSE IF fault = 3 THEN [db |-> d, err |-> ErrEngine]
               ELSE [db |-> d2, err |-> NoErr]
    IN  [db |-> Transaction(d, out), err |-> out.err]

\* config.UpdateConfig; a Delete whose condition struct is all zero is refused
UpdateConfig(d, class, id, config, fault) ==
    LET found == WhereConfig(d.configs, [ID |-> id, Class |-> class])
        device == CHOOSE r \in found : \A y \in found : r.ID <= y.ID
        d1 == [d EXCEPT !.details = DeleteRows(@, WhereDetail(@, id))]
        rows == mapAsDetails(device, config)
        d2 == [d1 EXCEPT !.details = @ (+) SetToBag(rows)]
        out == IF fault = 1 THEN [db |-> d, err |-> ErrEngine]
               ELSE IF found = {} THEN [db |-> d, err |-> ErrRecordNotFound]
               ELSE IF id = 0 THEN [db |-> d, err |-> ErrMissingWhereClause]
               ELSE IF fault = 2 THEN [db |-> d, err |-> ErrEngine]
               ELSE IF rows = {} THEN [db |-> d1, err |-> ErrEmptySlice]
               ELSE IF fault = 3 THEN [db |-> d1, err |-> ErrEngine]
               ELSE [db |-> d2, err |-> NoErr]
    IN  [db |-> Transaction(d, out), err |-> out.err]

\* config.DeleteConfig
DeleteConfig(d, class, id, fault) ==
    LET d1 == [d EXCEPT !.details = DeleteRows(@, WhereDetail(@, id))]
        d2 == [d1 EXCEPT !.configs = @ \ WhereConfig(@, [ID |-> id, Class |-> NoClass])]
        out == IF id = 0 THEN [db |-> d, err |-> ErrMissingWhereClause]
               ELSE IF fault = 1 THEN [db |-> d, err |-> ErrEngine]
               ELSE IF fault = 2 THEN [db |-> d1, err |-> ErrEngine]
               ELSE [db |-> d2, err |-> NoErr]
    IN  [db |-> Transaction(d, out), err |-> out.err]

----------------------------------------------------------------------------
(* Inputs of the store operations and the databases a process may start on *)

\* the attribute maps the callers pass: empty, one int, two strings
AttrMaps ==
    { <<>>,
      [k \in {"k1"} |-> IntVal(7)],
      [k \in {"k1", "k2"} |-> IF k = "k1" THEN StrVal(<<"v">>) ELSE StrVal(<<"7">>)] }
StoreTypes == {"plain", "auth"}
Ids == 0..(MaxId + 1)

Row(id, class, typ) == [ID |-> id, Class |-> class, Type |-> typ]
Attr(id, key, value) == [ConfigID |-> id, Key |-> key, Value |-> value]

\* an empty database; a vehicle and an orphaned vehicle row without attributes;
\* one descriptor of each of two classes; two vehicles
InitStores ==
    { [configs |-> {}, details |-> EmptyBag, seq |-> 0],
      [configs |-> {Row(1, "vehicle", "auth"), Row(2, "vehicle", "plain")},
       details |-> SetToBag({Attr(1, "k1", <<"v">>)}), seq |-> 2],
      [configs |-> {Row(1, "charger", "plain"), Row(2, "meter", "plain")},
       details |-> SetToBag({Attr(1, "k1", <<"v">>), Attr(2, "k2", <<"7">>)}), seq |-> 2],
      [configs |-> {Row(1, "vehicle", "plain"), Row(2, "vehicle", "auth")},
       details |-> SetToBag({Attr(1, "k1", <<"v">>), Attr(2, "k1", <<"v">>),
                             Attr(2, "k2", <<"v">>)}),
       seq |-> 2] }

\* lastOp: the n-th call, its arguments (for add, id is the id returned), and
\* whether the call before it was the same operation with the same arguments
NoOp == [n |-> 0, op |-> "none", class |-> NoClass, id |-> 0, typ |-> "",
         config |-> <<>>, repeat |-> FALSE, err |-> NoErr, device |-> ZeroConfig,
         list |-> <<>>, fault |-> 0]

Called(op, class, id, typ, config, e) ==
    [n |-> lastOp.n + 1, op |-> op, class |-> class, id |-> id, typ |-> typ,
     config |-> config,
     repeat |-> /\ lastOp.op = op /\ lastOp.class = class /\ lastOp.id = id
                /\ lastOp.typ = typ /\ lastOp.config = config,
     err |-> e, device |-> ZeroConfig, list |-> <<>>, fault |-> 0]

----------------------------------------------------------------------------
(* The store operations as called by the management interface *)

List ==
    /\ lastOp.n < MaxOps
    /\ \E class \in Classes :
         lastOp' = [Called("list", class, 0, "", <<>>, NoErr)
                       EXCEPT !.list = ConfigurationsByClass(db, class)]
    /\ UNCHANGED <<db, bootVars>>

Get ==
    /\ lastOp.n < MaxOps
    /\ \E id \in Ids :
         LET r == ConfigByID(db, id)
         IN  lastOp' = [Called("get", NoClass, id, "", <<>>, r.err) EXCEPT !.device = r.device]
    /\ UNCHANGED <<db, bootVars>>

Add ==
    /\ lastOp.n < MaxOps
    /\ db.seq < MaxId
    /\ \E class \in Classes, typ \in StoreTypes, config \in AttrMaps, fault \in 0..2 :
         LET r == AddConfig(db, class, typ, config, fault)
         IN  /\ db' = r.db
             /\ lastOp' = [Called("add", class, r.id, typ, config, r.err)
                              EXCEPT !.fault = fault]
    /\ UNCHANGED bootVars

Update ==
    /\ lastOp.n < MaxOps
    /\ \E class \in Classes, id \in Ids, config \in AttrMaps, fault \in 0..3 :
         LET r == UpdateConfig(db, class, id, config, fault)
         IN  /\ db' = r.db
             /\ lastOp' = [Called("update", class, id, "", config, r.err)
                              EXCEPT !.fault = fault]
    /\ UNCHANGED bootVars

Delete ==
    /\ lastOp.n < MaxOps
    /\ \E class \in Classes, id \in Ids, fault \in 0..2 :
         LET r == DeleteConfig(db, class, id, fault)
         IN  /\ db' = r.db
             /\ lastOp' = [Called("delete", class, id, "", <<>>, r.err)
                              EXCEPT !.fault = fault]
    /\ UNCHANGED bootVars

NextStore == Delete \/ Update \/ Add \/ Get \/ List

----------------------------------------------------------------------------
(* Bootstrap: errors, descriptors, handles and the driver resolver *)

StageOrder == <<"meters", "chargers", "vehicles", "loadpoints", "tariffs", "site">>

ConfigError == "config error"           \* an error errors.As finds a *util.ConfigError in
Offline == "offline"                    \* any other constructor error

Error(kind, class, pos, name, cause) ==
    [kind |-> kind, class |-> class, pos |-> pos, name |-> name, cause |-> cause]
NoError == Error("nil", NoClass, 0, <<>>, "nil")

\* fmt.Errorf("cannot create %s %d: missing name", i+1)
MissingName(class, pos) == Error("missing name", class, pos, <<>>, "nil")
\* fmt.Errorf("cannot create %s '%s': %w", cc.Name, err)
CannotCreate(class, name, cause) == Error("cannot create", class, 0, name, cause)
DuplicateName(class, name) == Error("duplicate name", class, 0, name, "nil")
Unwrapped(cause) == Error(cause, NoClass, 0, <<>>, "nil")
Wrapped(kind, e) == Error(kind, e.class, e.pos, e.name, e.kind)

NoInstance == [kind |-> "nil", title |-> <<>>, auth |-> FALSE, err |-> "nil"]
Driver(title, isAuth) == [kind |-> "driver", title |-> title, auth |-> isAuth, err |-> "nil"]

\* meter/charger/vehicle.NewFromConfig: what the constructor registered for a
\* type tag may return (a driver, or an error)
NewFromConfig(typ) ==
    IF typ = "plain" THEN {[instance |-> Driver(<<>>, FALSE), err |-> "nil"]}
    ELSE IF typ = "auth" THEN {[instance |-> Driver(<<"T">>, TRUE), err |-> "nil"],
                               [instance |-> NoInstance, err |-> Offline]}
    ELSE {[instance |-> NoInstance, err |-> ConfigError]}

\* wrapper.New: the stand-in bound for a vehicle that could not be created
WrapperNew(name, other, e) == [kind |-> "standin", title |-> <<>>, auth |-> FALSE, err |-> e]

\* instance.SetTitle
SetTitle(instance, title) == [instance EXCEPT !.title = title]

\* config.NewStaticDevice / config.NewConfigurableDevice: a handle holds its
\* descriptor; the model keeps with it what NewFromConfig returned for it
\* (made) and how often Connect was called on it (connects)
NewDevice(class, cc) ==
    [class |-> class, cfg |-> cc, instance |-> NoInstance, connects |-> 0, made |-> "none"]

\* Device.Connect
Connect(dev, instance) == [dev EXCEPT !.instance = instance, !.connects = @ + 1]

\* the handle once its constructor returned
Constructed(dev, made) == [dev EXCEPT !.made = made.err]

\* devices, if the configurable descriptors came first
devicesStoreFirst(class, static, configurable) ==
    [k \in 1..Len(configurable) |-> NewDevice(class, Named(configurable[k]))]
        \o [k \in 1..Len(static) |-> NewDevice(class, static[k])]

\* devices: the static descriptors, then the configurable ones
devices(class, static, configurable) ==
    [k \in 1..Len(static) |-> NewDevice(class, static[k])]
        \o [k \in 1..Len(configurable) |-> NewDevice(class, Named(configurable[k]))]

\* config.AddMeter / AddCharger / AddVehicle: names are unique in a registry
AddDevice(reg, dev) ==
    IF \E k \in 1..Len(reg) : reg[k].cfg.Name = dev.cfg.Name
    THEN [reg |-> reg, err |-> DuplicateName(dev.class, dev.cfg.Name)]
    ELSE [reg |-> Append(reg, dev), err |-> NoError]

\* the registration loop of configureChargers / configureVehicles
RECURSIVE AddAll(_, _, _)
AddAll(reg, devs, i) ==
    IF i > Len(devs) THEN [reg |-> reg, err |-> NoError]
    ELSE LET r == AddDevice(reg, devs[i])
         IN  IF r.err # NoError THEN r ELSE AddAll(r.reg, devs, i + 1)

\* the loop of configureMeters; made[i] is what meter.NewFromConfig returns for i
RECURSIVE MetersLoop(_, _, _, _)
MetersLoop(reg, devs, made, i) ==
    IF i > Len(devs) THEN [reg |-> reg, devs |-> devs, err |-> NoError]
    ELSE IF devs[i].cfg.Name = <<>>
         THEN [reg |-> reg, devs |-> devs, err |-> MissingName("meter", i)]
    ELSE LET dev == Constructed(devs[i], made[i])
         IN  IF made[i].err # "nil"
             THEN [reg |-> reg, devs |-> [devs EXCEPT ![i] = dev],
                   err |-> CannotCreate("meter", dev.cfg.Name, made[i].err)]
             ELSE LET bound == Connect(dev, made[i].instance)
                      r == AddDevice(reg, bound)
                  IN  IF r.err # NoError
                      THEN [reg |-> r.reg, devs |-> [devs EXCEPT ![i] = bound], err |-> r.err]
                      ELSE MetersLoop(r.reg, [devs EXCEPT ![i] = bound], made, i + 1)

----------------------------------------------------------------------------
(* Inputs of the bootstrap: the configuration file *)

Seqs(S, n) == UNION {[1..k -> S] : k \in 0..n}

StaticNames(class) ==
    IF class = "vehicle" THEN {<<>>, <<"a">>, <<"b", " ", "c">>} ELSE {<<>>, <<"a">>}

StaticTypes(class) == IF class = "vehicle" THEN {"plain", "auth", "bad"} ELSE {"plain", "bad"}

\* conf.Meters / conf.Chargers / conf.Vehicles
StaticConfigs(class) ==
    Seqs({[Name |-> n, Type |-> t, Other |-> <<>>] :
             n \in StaticNames(class), t \in StaticTypes(class)}, MaxStatic)

\* the choices of what the constructors return for a handle collection
Made(devs) ==
    {m \in [1..Len(devs) -> UNION {NewFromConfig(t) : t \in {"plain", "auth", "bad"}}] :
        \A k \in 1..Len(devs) : m[k] \in NewFromConfig(devs[k].cfg.Type)}

MaxLoadpoints == 1  \* entries of the loadpoints list of the configuration file

\* viper.AllSettings()["loadpoints"]: absent (ok false) or a list; an entry is
\* good, cannot be decoded, or is rejected by core.NewLoadpointFromConfig
LoadpointSettings ==
    {[ok |-> FALSE, list |-> <<>>]}
        \cup {[ok |-> TRUE, list |-> l] : l \in Seqs({"good", "undecodable", "invalid"}, MaxLoadpoints)}

MissingLoadpoints == "missing loadpoints"
NoLoadpoints == [read |-> FALSE, ok |-> FALSE, list |-> <<>>, built |-> <<>>]

\* the loop of configureLoadpoints
RECURSIVE LoadpointsLoop(_, _, _)
LoadpointsLoop(lps, list, i) ==
    IF i > Len(list) THEN [loadpoints |-> lps, err |-> NoError]
    ELSE IF list[i] = "undecodable"
         THEN [loadpoints |-> <<>>, err |-> Unwrapped("failed decoding loadpoint configuration")]
    ELSE IF list[i] = "invalid"
         THEN [loadpoints |-> <<>>, err |-> Unwrapped("failed configuring loadpoint")]
    ELSE LoadpointsLoop(Append(lps, i), list, i + 1)

\* configureLoadpoints, if an empty list were accepted
configureLoadpointsLenient(settings) ==
    IF ~settings.ok THEN [loadpoints |-> <<>>, err |-> Unwrapped(MissingLoadpoints)]
    ELSE LoadpointsLoop(<<>>, settings.list, 1)

\* configureLoadpoints
configureLoadpoints(settings) ==
    IF ~settings.ok \/ Len(settings.list) = 0
    THEN [loadpoints |-> <<>>, err |-> Unwrapped(MissingLoadpoints)]
    ELSE LoadpointsLoop(<<>>, settings.list, 1)

Slots == {"grid", "feedin", "co2", "planner"}

\* conf.Tariffs: a currency code and a type tag per slot ("" if not configured)
TariffConfigs ==
    {[Currency |-> c, Type |-> t] : c \in {"", "bad"}, t \in [Slots -> {"", "fixed", "broken"}]}

\* currency.ParseISO accepts the ISO codes only; MustParseISO panics otherwise
Panic == "panic: currency: tag is not well-formed"
IsISO(code) == code \in {"EUR", "USD"}

\* tariff.NewFromConfig
TariffNewFromConfig(typ) == IF typ = "fixed" THEN "ok" ELSE "error"

\* tariffs: the slot type tags read, what tariff.NewFromConfig returned per slot
\* ("no" if it was not called), and the bundle built by tariff.NewTariffs
NoTariffs == [built |-> FALSE, conf |-> [s \in Slots |-> ""], called |-> [s \in Slots |-> "no"],
              currency |-> "", slot |-> [s \in Slots |-> "nil"]]

SlotOrder == <<"grid", "feedin", "co2", "planner">>

\* configureTariffs, if the err of one slot were still set when the next is built
configureTariffsStickyErr(conf) ==
    LET made == [s \in Slots |->
                    IF conf.Type[s] # "" THEN TariffNewFromConfig(conf.Type[s]) ELSE "no"]
        pos(s) == CHOOSE k \in 1..Len(SlotOrder) : SlotOrder[k] = s
    IN  [built |-> TRUE,
         conf |-> conf.Type,
         called |-> made,
         currency |-> IF conf.Currency # "" THEN conf.Currency ELSE "EUR",
         slot |-> [s \in Slots |->
                     IF made[s] = "ok" /\ \A k \in 1..(pos(s) - 1) : made[SlotOrder[k]] # "error"
                     THEN "tariff" ELSE "nil"]]

\* configureTariffs, after the currency code was parsed: each slot on its own
configureTariffs(conf) ==
    LET made == [s \in Slots |->
                    IF conf.Type[s] # "" THEN TariffNewFromConfig(conf.Type[s]) ELSE "no"]
    IN  [built |-> TRUE,
         conf |-> conf.Type,
         called |-> made,
         currency |-> IF conf.Currency # "" THEN conf.Currency ELSE "EUR",
         slot |-> [s \in Slots |-> IF made[s] = "ok" THEN "tariff" ELSE "nil"]]

----------------------------------------------------------------------------
(* configureAuth *)

NoAuth == [published |-> FALSE, routes |-> <<>>, lookup |-> <<>>]

\* fmt.Sprintf("vehicles/%d", id)
BasePath(id) == <<"vehicles/">> \o Itoa(id)

\* util.AuthCollection.Register
Register(lookup, path, title) == Append(lookup, [path |-> path, title |-> title])

\* AuthLoop, if id counted every vehicle
RECURSIVE AuthLoopByPosition(_, _, _, _)
AuthLoopByPosition(a, vehicles, k, id) ==
    IF k > Len(vehicles) THEN [a EXCEPT !.published = TRUE]
    ELSE IF vehicles[k].auth
         THEN LET basePath == BasePath(k)
              IN  AuthLoopByPosition(
                    [a EXCEPT
                        !.lookup = Register(@, <<"oauth/">> \o basePath, vehicles[k].title),
                        !.routes = @ \o <<[vehicle |-> k, path |-> <<"/">> \o basePath \o <<"/login">>],
                                          [vehicle |-> k, path |-> <<"/">> \o basePath \o <<"/logout">>]>>],
                    vehicles, k + 1, id + 1)
         ELSE AuthLoopByPosition(a, vehicles, k + 1, id)

\* the loop of configureAuth over the vehicles, k the position and id the counter
RECURSIVE AuthLoop(_, _, _, _)
AuthLoop(a, vehicles, k, id) ==
    IF k > Len(vehicles) THEN [a EXCEPT !.published = TRUE]
    ELSE IF vehicles[k].auth
         THEN LET basePath == BasePath(id + 1)
              IN  AuthLoop(
                    [a EXCEPT
                        !.lookup = Register(@, <<"oauth/">> \o basePath, vehicles[k].title),
                        !.routes = @ \o <<[vehicle |-> k, path |-> <<"/">> \o basePath \o <<"/login">>],
                                          [vehicle |-> k, path |-> <<"/">> \o basePath \o <<"/logout">>]>>],
                    vehicles, k + 1, id + 1)
         ELSE AuthLoop(a, vehicles, k + 1, id)

\* config.Instances
Instances(reg) == [k \in 1..Len(reg) |-> reg[k].instance]

----------------------------------------------------------------------------
(* configureSiteAndLoadpoints: the sequencer and the class builders *)

Init ==
    /\ db \in InitStores
    /\ lastOp = NoOp
    /\ pc = "meters"
    /\ started = <<>>
    /\ failed = <<>>
    /\ err = NoError
    /\ site = "nil"
    /\ registry = [c \in Classes |-> <<>>]
    /\ res = <<>>
    /\ task = <<>>
    /\ gi = 0
    /\ gerr = NoError
    /\ tariffs = NoTariffs
    /\ loadpoints = NoLoadpoints
    /\ auth = NoAuth
    /\ declared = [c \in Classes |-> <<>>]

\* Abort, if the error of configureLoadpoints were not checked
AbortUnlessLoadpoints(stage, e) ==
    /\ pc' = IF stage = "loadpoints" THEN "tariffs" ELSE "abort"
    /\ failed' = Append(failed, [stage |-> stage, err |-> e])
    /\ err' = e

\* a stage returns e: configureSiteAndLoadpoints returns (nil, e)
Abort(stage, e) ==
    /\ pc' = "abort"
    /\ failed' = Append(failed, [stage |-> stage, err |-> e])
    /\ err' = e

\* configureMeters
ConfigureMeters ==
    /\ pc = "meters"
    /\ started' = Append(started, "meters")
    /\ \E meters \in StaticConfigs("meter"), fault \in 0..1 :
         /\ declared' = [declared EXCEPT !["meter"] = meters]
         /\ IF fault = 1
            THEN Abort("meters", Unwrapped(ErrEngine)) /\ UNCHANGED <<registry, res, task>>
            ELSE LET devs == devices("meter", meters, ConfigurationsByClass(db, "meter"))
                 IN  \E made \in Made(devs) :
                       LET r == MetersLoop(registry["meter"], devs, made, 1)
                       IN  /\ registry' = [registry EXCEPT !["meter"] = r.reg]
                           /\ res' = r.devs
                           /\ task' = [k \in 1..Len(devs) |-> "none"]
                           /\ IF r.err # NoError THEN Abort("meters", r.err)
                              ELSE pc' = "chargers" /\ UNCHANGED <<failed, err>>
    /\ UNCHANGED <<storeVars, site, gi, gerr, tariffs, loadpoints, auth>>

\* configureChargers / configureVehicles up to the loop over the devices
StartBuilder(class, stage) ==
    /\ pc = stage
    /\ started' = Append(started, stage)
    /\ \E cfgs \in StaticConfigs(class), fault \in 0..1 :
         /\ declared' = [declared EXCEPT ![class] = cfgs]
         /\ IF fault = 1
            THEN Abort(stage, Unwrapped(ErrEngine)) /\ UNCHANGED <<res, task, gi, gerr>>
            ELSE /\ res' = devices(class, cfgs, ConfigurationsByClass(db, class))
                 /\ task' = [k \in 1..Len(res') |-> "none"]
                 /\ gi' = 1
                 /\ gerr' = NoError
                 /\ pc' = stage \o ".loop"
                 /\ UNCHANGED <<failed, err>>
    /\ UNCHANGED <<storeVars, site, registry, tariffs, loadpoints, auth>>

\* one iteration of the loop: the name check, then g.Go
BuilderLoop(class, stage) ==
    /\ pc = stage \o ".loop"
    /\ gi <= Len(res)
    /\ IF res[gi].cfg.Name = <<>>
       THEN Abort(stage, MissingName(class, gi)) /\ UNCHANGED <<task, gi>>
       ELSE /\ task' = [task EXCEPT ![gi] = "running"]
            /\ gi' = gi + 1
            /\ UNCHANGED <<pc, failed, err>>
    /\ UNCHANGED <<storeVars, declared, started, site, registry, res, gerr, tariffs, loadpoints, auth>>

\* the function a charger task runs
ChargerTask(dev, made) ==
    IF made.err # "nil"
    THEN [dev |-> Constructed(dev, made),
          err |-> CannotCreate("charger", dev.cfg.Name, made.err)]
    ELSE [dev |-> Connect(Constructed(dev, made), made.instance), err |-> NoError]

\* VehicleTask, if a configuration error were wrapped like any other error
VehicleTaskWrapAll(dev, made) ==
    LET instance == IF made.err # "nil"
                    THEN WrapperNew(dev.cfg.Name, dev.cfg.Other, made.err)
                    ELSE made.instance
        titled == IF instance.title = <<>>
                  THEN SetTitle(instance, Title(dev.cfg.Name))
                  ELSE instance
    IN  [dev |-> Connect(Constructed(dev, made), titled), err |-> NoError]

\* VehicleTask, if the title were not derived from the name
VehicleTaskUntitled(dev, made) ==
    IF made.err = ConfigError
    THEN [dev |-> Constructed(dev, made),
          err |-> CannotCreate("vehicle", dev.cfg.Name, made.err)]
    ELSE LET instance == IF made.err # "nil"
                         THEN WrapperNew(dev.cfg.Name, dev.cfg.Other, made.err)
                         ELSE made.instance
         IN  [dev |-> Connect(Constructed(dev, made), instance), err |-> NoError]

\* the function a vehicle task runs
VehicleTask(dev, made) ==
    IF made.err = ConfigError
    THEN [dev |-> Constructed(dev, made),
          err |-> CannotCreate("vehicle", dev.cfg.Name, made.err)]
    ELSE LET instance == IF made.err # "nil"
                         THEN WrapperNew(dev.cfg.Name, dev.cfg.Other, made.err)
                         ELSE made.instance
             titled == IF instance.title = <<>>
                       THEN SetTitle(instance, Title(dev.cfg.Name))
                       ELSE instance
         IN  [dev |-> Connect(Constructed(dev, made), titled), err |-> NoError]

\* a task of the errgroup runs to its end; the group keeps the first error
Task(k) ==
    /\ k \in 1..Len(task)
    /\ task[k] = "running"
    /\ \E made \in NewFromConfig(res[k].cfg.Type) :
         LET r == IF res[k].class = "vehicle" THEN VehicleTask(res[k], made)
                  ELSE ChargerTask(res[k], made)
         IN  /\ res' = [res EXCEPT ![k] = r.dev]
             /\ task' = [task EXCEPT ![k] = IF r.err = NoError THEN "done" ELSE "failed"]
             /\ gerr' = IF r.err # NoError /\ gerr = NoError THEN r.err ELSE gerr
    /\ UNCHANGED <<storeVars, declared, pc, started, failed, err, site, registry, gi, tariffs,
                   loadpoints, auth>>

\* BuilderWait, if the error of g.Wait were not checked
BuilderWaitIgnoreErr(class, stage, next) ==
    /\ pc = stage \o ".loop"
    /\ gi > Len(res)
    /\ \A k \in 1..Len(task) : task[k] \in {"done", "failed"}
    /\ LET r == AddAll(registry[class], res, 1)
       IN  /\ registry' = [registry EXCEPT ![class] = r.reg]
           /\ IF r.err # NoError THEN Abort(stage, r.err)
              ELSE pc' = next /\ UNCHANGED <<failed, err>>
    /\ UNCHANGED <<storeVars, declared, started, site, res, task, gi, gerr, tariffs, loadpoints, auth>>

\* BuilderWait, if the devices were registered without g.Wait
BuilderWaitNoJoin(class, stage, next) ==
    /\ pc = stage \o ".loop"
    /\ gi > Len(res)
    /\ IF gerr # NoError
       THEN Abort(stage, gerr) /\ UNCHANGED registry
       ELSE LET r == AddAll(registry[class], res, 1)
            IN  /\ registry' = [registry EXCEPT ![class] = r.reg]
                /\ IF r.err # NoError THEN Abort(stage, r.err)
                   ELSE pc' = next /\ UNCHANGED <<failed, err>>
    /\ UNCHANGED <<storeVars, declared, started, site, res, task, gi, gerr, tariffs, loadpoints, auth>>

\* g.Wait and the registration of the devices
BuilderWait(class, stage, next) ==
    /\ pc = stage \o ".loop"
    /\ gi > Len(res)
    /\ \A k \in 1..Len(task) : task[k] \in {"done", "failed"}
    /\ IF gerr # NoError
       THEN Abort(stage, gerr) /\ UNCHANGED registry
       ELSE LET r == AddAll(registry[class], res, 1)
            IN  /\ registry' = [registry EXCEPT ![class] = r.reg]
                /\ IF r.err # NoError THEN Abort(stage, r.err)
                   ELSE pc' = next /\ UNCHANGED <<failed, err>>
    /\ UNCHANGED <<storeVars, declared, started, site, res, task, gi, gerr, tariffs, loadpoints, auth>>

ConfigureChargers ==
    \/ StartBuilder("charger", "chargers")
    \/ BuilderLoop("charger", "chargers")
    \/ BuilderWait("charger", "chargers", "vehicles")

ConfigureVehicles ==
    \/ StartBuilder("vehicle", "vehicles")
    \/ BuilderLoop("vehicle", "vehicles")
    \/ BuilderWait("vehicle", "vehicles", "loadpoints")

RunTask == \E k \in 1..Len(task) : Task(k)

\* the Loadpoints stage
ConfigureLoadpoints ==
    /\ pc = "loadpoints"
    /\ started' = Append(started, "loadpoints")
    /\ \E settings \in LoadpointSettings :
         LET r == configureLoadpoints(settings)
         IN  /\ loadpoints' = [read |-> TRUE, ok |-> settings.ok, list |-> settings.list,
                                built |-> r.loadpoints]
             /\ IF r.err # NoError
                THEN Abort("loadpoints", Wrapped("failed configuring loadpoints", r.err))
                ELSE pc' = "tariffs" /\ UNCHANGED <<failed, err>>
    /\ UNCHANGED <<storeVars, declared, site, registry, res, task, gi, gerr, tariffs, auth>>

\* the Tariffs stage: currency.MustParseISO panics on a code it cannot parse
ConfigureTariffs ==
    /\ pc = "tariffs"
    /\ started' = Append(started, "tariffs")
    /\ \E conf \in TariffConfigs :
         IF conf.Currency # "" /\ ~IsISO(conf.Currency)
         THEN /\ pc' = "panic"
              /\ failed' = Append(failed, [stage |-> "tariffs", err |-> Unwrapped(Panic)])
              /\ err' = Unwrapped(Panic)
              /\ UNCHANGED tariffs
         ELSE /\ tariffs' = configureTariffs(conf)
              /\ pc' = "site"
              /\ UNCHANGED <<failed, err>>
    /\ UNCHANGED <<storeVars, declared, site, registry, res, task, gi, gerr, loadpoints, auth>>

\* the Site stage: core.NewSiteFromConfig builds the site or fails
ConfigureSite ==
    /\ pc = "site"
    /\ started' = Append(started, "site")
    /\ \E ok \in BOOLEAN :
         IF ok THEN /\ site' = "site"
                    /\ pc' = "done"
                    /\ UNCHANGED <<failed, err>>
         ELSE Abort("site", Unwrapped("failed configuring site")) /\ UNCHANGED site
    /\ UNCHANGED <<storeVars, declared, registry, res, task, gi, gerr, tariffs, loadpoints, auth>>

\* configureAuth, called with the vehicles of the registry once the site is built
ConfigureAuth ==
    /\ pc = "done"
    /\ ~auth.published
    /\ auth' = AuthLoop(auth, Instances(registry["vehicle"]), 1, 0)
    /\ UNCHANGED <<storeVars, declared, pc, started, failed, err, site, registry, res, task, gi,
                   gerr, tariffs, loadpoints>>

Next ==
    \/ ConfigureMeters
    \/ ConfigureChargers
    \/ ConfigureVehicles
    \/ RunTask
    \/ ConfigureLoadpoints
    \/ ConfigureTariffs
    \/ ConfigureSite
    \/ ConfigureAuth

Spec == Init /\ [][Next]_vars

\* the descriptor store driven by its callers alone
StoreSpec == Init /\ [][NextStore]_vars

----------------------------------------------------------------------------
(* Properties of the bootstrap *)

Last(q) == q[Len(q)]
Range(q) == {q[k] : k \in 1..Len(q)}
BuilderStages == {"meters", "chargers", "vehicles"}
ClassOf(stage) ==
    IF stage = "meters" THEN "meter" ELSE IF stage = "chargers" THEN "charger" ELSE "vehicle"
Running == {k \in 1..Len(task) : task[k] = "running"}

C2_BlankNameAllOrNothing ==
    \A k \in 1..Len(res) :
        ( /\ pc = "abort"
          /\ failed[1].stage \in BuilderStages
          /\ res[k].class = ClassOf(failed[1].stage)
          /\ res[k].cfg.Name = <<>>
          /\ \A j \in 1..(k - 1) : res[j].cfg.Name # <<>> )
        => /\ err = MissingName(res[k].class, k)
           /\ registry[res[k].class] = <<>>

VehiclesSucceeded ==
    /\ "vehicles" \in Range(started)
    /\ pc \notin {"vehicles", "vehicles.loop"}
    /\ failed # <<>> => failed[1].stage # "vehicles"

VehiclesReturned ==
    /\ "vehicles" \in Range(started)
    /\ pc \notin {"vehicles", "vehicles.loop"}

Registered(class, dev) ==
    \E m \in 1..Len(registry[class]) :
        /\ registry[class][m].cfg.Name = dev.cfg.Name
        /\ registry[class][m].instance = dev.instance

StandInFor(dev) ==
    /\ dev.connects = 1
    /\ dev.instance.kind = "standin"
    /\ dev.instance.err = dev.made
    /\ dev.instance.title = Title(dev.cfg.Name)

\* C3 as claimed: whatever error the constructor of a vehicle descriptor
\* returned, its task does not fail the stage and binds a stand-in that reports
\* the error and is titled with the title-cased name, and once the stage
\* returned the registry holds that handle.
C3_AnyFailureGivesStandIn ==
    \A k \in 1..Len(res) :
        (res[k].class = "vehicle" /\ res[k].made \notin {"none", "nil"})
        => /\ task[k] = "done"
           /\ StandInFor(res[k])
           /\ VehiclesReturned => (VehiclesSucceeded /\ Registered("vehicle", res[k]))

\* C3: a vehicle descriptor whose constructor returned an error that is not a
\* configuration error does not fail the stage: its task binds a stand-in that
\* reports the error and is titled with the title-cased name, the error is not
\* the one of the group, and if the stage succeeds the registry holds that handle.
C3_NonConfigFailureGivesStandIn ==
    \A k \in 1..Len(res) :
        (res[k].class = "vehicle" /\ res[k].made \notin {"none", "nil", ConfigError})
        => /\ task[k] = "done"
           /\ StandInFor(res[k])
           /\ gerr # CannotCreate("vehicle", res[k].cfg.Name, res[k].made)
           /\ VehiclesSucceeded => Registered("vehicle", res[k])

\* C3 witness: the stage succeeded and the registry holds the stand-in of
\* vehicle "b c", titled "B C"
C3_Witness ==
    /\ VehiclesSucceeded
    /\ \E m \in 1..Len(registry["vehicle"]) :
         /\ registry["vehicle"][m].cfg.Name = <<"b", " ", "c">>
         /\ registry["vehicle"][m].made = Offline
         /\ registry["vehicle"][m].instance.kind = "standin"
         /\ registry["vehicle"][m].instance.title = <<"B", " ", "C">>

\* C4: once the loadpoints list was read and is absent or empty, the sequencer
\* has aborted at the Loadpoints stage with the missing-loadpoints error and
\* neither the Tariffs nor the Site stage has started.
C4_MissingLoadpointsAborts ==
    (loadpoints.read /\ (~loadpoints.ok \/ loadpoints.list = <<>>))
    => /\ pc = "abort"
       /\ failed[1].stage = "loadpoints"
       /\ err = Wrapped("failed configuring loadpoints", Unwrapped(MissingLoadpoints))
       /\ "tariffs" \notin Range(started)
       /\ "site" \notin Range(started)
       /\ ~tariffs.built
       /\ site = "nil"

\* C4 witness: the list was present and empty, and the sequencer aborted
C4_Witness ==
    /\ loadpoints.read
    /\ loadpoints.ok
    /\ loadpoints.list = <<>>
    /\ pc = "abort"

\* C5: once configureTariffs resolved the slots, whatever each slot's
\* constructor returned, the stage succeeded: a slot whose constructor failed
\* is absent, a configured slot whose constructor succeeded is present, a slot
\* not configured is absent, and the Site stage is the next to run.
C5_TariffSlotsIndependent ==
    tariffs.built
    => /\ \A s \in Slots :
            /\ (tariffs.conf[s] # "" /\ TariffNewFromConfig(tariffs.conf[s]) = "error")
                  => tariffs.slot[s] = "nil"
            /\ (tariffs.conf[s] # "" /\ TariffNewFromConfig(tariffs.conf[s]) = "ok")
                  => tariffs.slot[s] = "tariff"
            /\ tariffs.conf[s] = "" => tariffs.slot[s] = "nil"
       /\ "tariffs" \in Range(started)
       /\ failed # <<>> => failed[1].stage = "site"
       /\ pc = "site" \/ "site" \in Range(started)

\* C5 witness: grid resolved, feed-in failed, and the Site stage has started
C5_Witness ==
    /\ tariffs.built
    /\ tariffs.conf["grid"] = "fixed"
    /\ tariffs.conf["feedin"] = "broken"
    /\ tariffs.slot["grid"] = "tariff"
    /\ tariffs.slot["feedin"] = "nil"
    /\ "site" \in Range(started)

----------------------------------------------------------------------------
(* Properties of the descriptor store *)

IdsOf(d) == {r.ID : r \in d.configs}
RowsOf(d, id) == {x \in BagToSet(d.details) : x.ConfigID = id}
IsStringMap(m) == \A k \in DOMAIN m : m[k].t = "string"
NextCall == lastOp'.n = lastOp.n + 1

\* C6: list(class) returns the descriptors of the class that have at least one
\* attribute, each once, with their type and attributes, in ascending id order,
\* and no descriptor without attributes.
C6_ListExcludesEmpty ==
    lastOp.op = "list"
    => LET l == lastOp.list
           want == {r \in db.configs : r.Class = lastOp.class /\ RowsOf(db, r.ID) # {}}
       IN  /\ Len(l) = Cardinality(want)
           /\ {l[k].ID : k \in 1..Len(l)} = {r.ID : r \in want}
           /\ \A k \in 1..(Len(l) - 1) : l[k].ID < l[k + 1].ID
           /\ \A k \in 1..Len(l) :
                /\ BagCardinality(l[k].Details) > 0
                /\ [ID |-> l[k].ID, Class |-> l[k].Class, Type |-> l[k].Type] \in want
                /\ BagToSet(l[k].Details)
                     = {[Key |-> x.Key, Value |-> x.Value] : x \in RowsOf(db, l[k].ID)}

\* C6 witness: a list that holds a descriptor and leaves out one of the class
\* that has no attributes
C6_Witness ==
    /\ lastOp.op = "list"
    /\ Len(lastOp.list) >= 1
    /\ \E r \in db.configs : r.Class = lastOp.class /\ RowsOf(db, r.ID) = {}

\* C7: get, update and delete called with an id that no descriptor of the store
\* has return the not-found error and leave the store as it was (the storage
\* engine failing no statement).
C7_UnknownIdNotFound ==
    [][ ( /\ NextCall /\ lastOp'.op \in {"get", "update", "delete"}
          /\ lastOp'.id \notin IdsOf(db) /\ lastOp'.fault = 0 )
        => (lastOp'.err = ErrRecordNotFound /\ db' = db) ]_vars

\* C8: get of the id that add returned for a non-empty map of strings returns
\* the descriptor with the class and type given to add and, as a map, exactly
\* the attributes given, one detail per key; Named and Typed carry the same
\* type and map.
C8_AddGetRoundTrip ==
    [][ ( /\ lastOp.op = "add" /\ lastOp.err = NoErr
          /\ DOMAIN lastOp.config # {} /\ IsStringMap(lastOp.config)
          /\ NextCall /\ lastOp'.op = "get" /\ lastOp'.id = lastOp.id )
        => LET dev == lastOp'.device
           IN  /\ lastOp'.err = NoErr
               /\ dev.ID = lastOp.id
               /\ dev.Class = lastOp.class
               /\ dev.Type = lastOp.typ
               /\ BagCardinality(dev.Details) = Cardinality(DOMAIN lastOp.config)
               /\ detailsAsMap(dev) = lastOp.config
               /\ Named(dev) = [Name |-> NameForID(lastOp.id), Type |-> lastOp.typ,
                                Other |-> lastOp.config]
               /\ Typed(dev) = [Type |-> lastOp.typ, Other |-> lastOp.config] ]_vars

\* C8 witness: the descriptor added to the empty database was read back with
\* its two attributes
C8_Witness ==
    /\ lastOp.op = "get"
    /\ lastOp.n = 2
    /\ lastOp.err = NoErr
    /\ db.seq = 1
    /\ lastOp.device.ID = 1
    /\ BagCardinality(lastOp.device.Details) = 2

\* C9: an update of an existing id called again with the same class, id and
\* map leaves the list output of every class, and the descriptor rows, as the
\* first call left them (the storage engine having failed no statement of the
\* first call).
C9_UpdateIdempotent ==
    [][ ( /\ NextCall /\ lastOp'.op = "update" /\ lastOp'.repeat
          /\ lastOp'.id \in IdsOf(db) /\ lastOp.fault = 0 )
        => /\ \A c \in Classes : ConfigurationsByClass(db', c) = ConfigurationsByClass(db, c)
           /\ db'.configs = db.configs ]_vars

\* C9 witness: the second of two equal updates that both succeeded
C9_Witness ==
    /\ lastOp.op = "update"
    /\ lastOp.repeat
    /\ lastOp.err = NoErr
    /\ lastOp.id \in IdsOf(db)

----------------------------------------------------------------------------
(* Properties of configureAuth *)

Capable == {k \in 1..Len(registry["vehicle"]) : registry["vehicle"][k].instance.auth}
AuthId(k) == 1 + Cardinality({j \in Capable : j < k})
RoutesOf(k, path) ==
    {r \in 1..Len(auth.routes) : auth.routes[r] = [vehicle |-> k, path |-> path]}

\* C10: configureAuth registers one login and one logout route for each
\* vehicle that is an AuthProvider, under the id that is 1 plus the number of
\* AuthProviders before it in the registry, none for the other vehicles, and
\* publishes one lookup entry per AuthProvider, numbered 1..n.
C10_AuthRoutes ==
    auth.published
    => /\ Len(auth.routes) = 2 * Cardinality(Capable)
       /\ \A r \in 1..Len(auth.routes) : auth.routes[r].vehicle \in Capable
       /\ \A k \in Capable :
            /\ Cardinality(RoutesOf(k, <<"/", "vehicles/">> \o Itoa(AuthId(k)) \o <<"/login">>)) = 1
            /\ Cardinality(RoutesOf(k, <<"/", "vehicles/">> \o Itoa(AuthId(k)) \o <<"/logout">>)) = 1
       /\ {AuthId(k) : k \in Capable} = 1..Cardinality(Capable)
       /\ Len(auth.lookup) = Cardinality(Capable)
       /\ \A k \in Capable :
            auth.lookup[AuthId(k)] = [path |-> <<"oauth/", "vehicles/">> \o Itoa(AuthId(k)),
                                      title |-> registry["vehicle"][k].instance.title]

\* C10 witness: two AuthProviders were given routes and a vehicle before one of
\* them was skipped
C10_Witness ==
    /\ auth.published
    /\ Cardinality(Capable) = 2
    /\ Len(auth.lookup) = 2
    /\ \E k \in Capable : \E j \in 1..(k - 1) : j \notin Capable

----------------------------------------------------------------------------
(* Properties of the class builders *)

FanOutStages == {"chargers", "vehicles"}

\* the builder of a stage returned the missing-name error
ReturnedMissingName(stage) ==
    /\ pc = "abort"
    /\ failed[1].stage = stage
    /\ err.kind = "missing name"

\* C11: when the charger or vehicle builder has returned the missing-name
\* error, no construction task was launched for any handle of the collection
\* and no handle of it is bound, then or later.
C11_MissingNameBeforeFanOut ==
    \A stage \in FanOutStages :
        ReturnedMissingName(stage)
        => \A k \in 1..Len(res) : task[k] = "none" /\ res[k].connects = 0

\* the handles of the collection of a stage whose constructor returned an error
ConstructionFailed(stage) ==
    {k \in 1..Len(res) : res[k].class = ClassOf(stage) /\ res[k].made \notin {"none", "nil"}}

\* the builder of a stage has returned and its collection is still in res
Returned(stage, next) ==
    /\ stage \in Range(started)
    /\ \/ pc = "abort" /\ failed[1].stage = stage
       \/ pc = next

\* C12: when the constructor of a meter or charger descriptor failed, the
\* builder returns an error naming a device whose constructor failed, the
\* registry of the class holds no device, and no later stage starts.
C12_ConstructionFailureAborts ==
    \A s \in {<<"meters", "chargers">>, <<"chargers", "vehicles">>} :
        (Returned(s[1], s[2]) /\ ConstructionFailed(s[1]) # {})
        => /\ pc = "abort"
           /\ failed[1].stage = s[1]
           /\ Last(started) = s[1]
           /\ err.kind = "cannot create"
           /\ \E k \in ConstructionFailed(s[1]) : err.name = res[k].cfg.Name
           /\ registry[ClassOf(s[1])] = <<>>

\* the tasks of a class that are in flight
InFlight(class) == {k \in Running : res[k].class = class}

\* the registry of a class is written by this step
Registers(class) == registry'[class] # registry[class]

\* C13: for chargers and vehicles, no device of the class is registered while
\* a construction task of the class is in flight, and a step that writes the
\* registry of the class is a step of the builder after the join: no task is
\* running before it and it is not the step of a task.
C13_RegistryWrittenAfterJoin ==
    /\ [](\A class \in {"charger", "vehicle"} :
            registry[class] # <<>> => InFlight(class) = {})
    /\ [][\A class \in {"charger", "vehicle"} :
            Registers(class)
            => /\ Running = {}
               /\ \A k \in 1..Len(task) : task[k] \in {"done", "failed"}
               /\ gi > Len(res)
               /\ task' = task /\ res' = res]_vars

\* C13 witness: two charger tasks ran and joined, and the two chargers are
\* registered
C13_Witness ==
    /\ pc = "vehicles"
    /\ Len(registry["charger"]) = 2
    /\ Len(task) = 2
    /\ \A k \in 1..2 : task[k] = "done" /\ res[k].class = "charger"

\* the builder of a stage returned nil
Succeeded(stage) ==
    /\ stage \in Range(started)
    /\ pc \notin {stage, stage \o ".loop"}
    /\ failed # <<>> => failed[1].stage # stage

\* the ids of the descriptors of a class the store lists
StoredIds(class) == {r.ID : r \in {x \in db.configs : x.Class = class /\ RowsOf(db, x.ID) # {}}}

\* C14: the registry of a class that was built holds one device per descriptor
\* of the merged collection, in merged order: the declared descriptors in
\* declared order, then the descriptors the store lists for the class by
\* ascending id, whatever the order in which the tasks ended.
C14_RegisteredInMergedOrder ==
    \A stage \in BuilderStages :
        Succeeded(stage)
        => LET class == ClassOf(stage)
               reg == registry[class]
               n == Len(declared[class])
           IN  /\ Len(reg) = n + Cardinality(StoredIds(class))
               /\ \A k \in 1..n : k <= Len(reg) /\ reg[k].cfg = declared[class][k]
               /\ \A id \in StoredIds(class) :
                    LET k == n + 1 + Cardinality({i \in StoredIds(class) : i < id})
                    IN  k <= Len(reg) /\ reg[k].cfg.Name = NameForID(id)
               /\ \A k \in 1..Len(reg) : reg[k].class = class /\ reg[k].connects = 1

\* C14 witness: two declared vehicles and two vehicles of the store are
\* registered
C14_Witness ==
    /\ Succeeded("vehicles")
    /\ Len(declared["vehicle"]) = 2
    /\ StoredIds("vehicle") = {1, 2}
    /\ Len(registry["vehicle"]) = 4
    /\ registry["vehicle"][4].cfg.Name = NameForID(2)

\* the tasks of the collection of a stage that returned an error
FailedTasks(stage) ==
    {k \in 1..Len(task) : res[k].class = ClassOf(stage) /\ task[k] = "failed"}

\* C15: when the charger builder has returned and a construction task of its
\* collection failed, no launched task is still running and the error returned
\* is the one error the group kept, the error of the task that failed first.
C15_JoinAllFirstError ==
    (Returned("chargers", "vehicles") /\ FailedTasks("chargers") # {})
    => /\ Running = {}
       /\ pc = "abort"
       /\ err = gerr
       /\ \E k \in FailedTasks("chargers") :
            err = CannotCreate("charger", res[k].cfg.Name, res[k].made)

\* the handle is bound: Connect was called on it with an instance
Bound(dev) == dev.connects = 1 /\ dev.instance # NoInstance

\* C16: Connect was called at most once on every handle, only the task (or,
\* for meters, the loop iteration) of a handle has bound it, and every handle
\* held by a registry is bound.
C16_BoundOnceBeforeRegistered ==
    /\ \A k \in 1..Len(res) :
         /\ res[k].connects <= 1
         /\ res[k].connects = 1 => Bound(res[k])
         /\ (res[k].connects = 1 /\ res[k].class # "meter") => task[k] = "done"
         /\ res[k].connects = 0 => res[k].instance = NoInstance
    /\ \A class \in Classes : \A k \in 1..Len(registry[class]) : Bound(registry[class][k])

\* C16 witness: meters, chargers and vehicles are registered, each bound once
C16_Witness ==
    /\ \A class \in Classes : registry[class] # <<>>
    /\ \A class \in Classes : \A k \in 1..Len(registry[class]) : registry[class][k].connects = 1
    /\ Len(registry["vehicle"]) >= 2

----------------------------------------------------------------------------
(* Properties of the store under failing statements *)

\* C17: an add, update or delete that returns an error, whichever of its
\* statements failed (the descriptor-row write, the attribute-row delete, the
\* attribute-row write), leaves the store exactly as it was: rows, attribute
\* rows and id counter.
C17_FailedOperationChangesNothing ==
    [][ (NextCall /\ lastOp'.op \in {"add", "update", "delete"} /\ lastOp'.err # NoErr)
        => db' = db ]_vars

\* C17 witness: an update with a new map whose attribute-row write failed
\* after its delete, the id still having the attributes it had
C17_Witness ==
    /\ lastOp.op = "update"
    /\ lastOp.fault = 3
    /\ lastOp.err = ErrEngine
    /\ lastOp.id \in IdsOf(db)
    /\ DOMAIN lastOp.config = {"k1", "k2"}
    /\ {x.Key : x \in RowsOf(db, lastOp.id)} = {"k1"}

----------------------------------------------------------------------------
(* Properties of the fatal configuration errors *)

\* the vehicle handles whose driver resolution returned a configuration error
ConfigFailed == {k \in 1..Len(res) : res[k].class = "vehicle" /\ res[k].made = ConfigError}

\* what holds of a vehicle k of ConfigFailed whatever error the stage returns
FatalToVehicles(k) ==
    /\ task[k] = "failed"
    /\ res[k].connects = 0
    /\ res[k].instance = NoInstance
    /\ registry["vehicle"] = <<>>
    /\ "loadpoints" \notin Range(started)
    /\ pc \in {"vehicles.loop", "abort"}
    /\ pc = "abort" => failed[1].stage = "vehicles"

\* C18 as claimed: a vehicle whose driver resolution returned a configuration
\* error gets no stand-in, no vehicle is registered, the Loadpoints stage does
\* not start, and the error the stage returns names that vehicle.
C18_ConfigErrorFatalNamed ==
    \A k \in ConfigFailed :
        /\ FatalToVehicles(k)
        /\ pc = "abort" => err = CannotCreate("vehicle", res[k].cfg.Name, ConfigError)

\* C18: a vehicle whose driver resolution returned a configuration error gets
\* no stand-in, no vehicle is registered and the Loadpoints stage does not
\* start; the error the stage returns is the error the group kept, naming the
\* vehicle whose task failed first, or the missing-name error of a descriptor
\* with a blank name met by the loop.
C18_ConfigErrorFatal ==
    \A k \in ConfigFailed :
        /\ FatalToVehicles(k)
        /\ pc = "abort"
           => \/ err = MissingName("vehicle", gi) /\ res[gi].cfg.Name = <<>>
              \/ /\ err = gerr
                 /\ \E j \in ConfigFailed : err = CannotCreate("vehicle", res[j].cfg.Name, ConfigError)

\* C18 witness: two vehicles of different names failed with a configuration
\* error and the stage returned the error of one of them
C18_Witness ==
    /\ pc = "abort"
    /\ failed[1].stage = "vehicles"
    /\ Cardinality({res[k].cfg.Name : k \in ConfigFailed}) = 2
    /\ err.kind = "cannot create"

\* the Tariffs stage ran and built no bundle: the currency code was not parsed
CurrencyRejected ==
    /\ "tariffs" \in Range(started)
    /\ pc # "tariffs"
    /\ ~tariffs.built

\* C19: when the currency code of the tariff configuration cannot be parsed,
\* the Tariffs stage returns an error to the sequencer, which returns that
\* error, and the Site stage does not start.
C19_BadCurrencyReturnsError ==
    CurrencyRejected
    => /\ pc = "abort"
       /\ failed[1].stage = "tariffs"
       /\ err = failed[1].err
       /\ err # NoError
       /\ "site" \notin Range(started)
       /\ site = "nil"

----------------------------------------------------------------------------
(* Properties relating two bootstraps of the same descriptors *)

\* the vehicles of the registry whose driver is an AuthProvider, that is which
\* are authentication-capable in the bootstrap in which every constructor
\* succeeds
CapableByDescriptor ==
    {k \in 1..Len(registry["vehicle"]) :
        \E made \in NewFromConfig(registry["vehicle"][k].cfg.Type) :
            made.err = "nil" /\ made.instance.auth}

\* the id vehicle k is given in the bootstrap in which every constructor succeeds
ReferenceId(k) == 1 + Cardinality({j \in CapableByDescriptor : j < k})

\* C20: the callback path of an authentication-capable vehicle is a function
\* of the vehicle descriptors alone: in every bootstrap, whatever the order the
\* tasks ended in and whichever other vehicles were replaced by a stand-in, it
\* is the path the vehicle has in the bootstrap of the same descriptors in
\* which every constructor succeeds.
C20_CallbackPathStable ==
    auth.published
    => \A k \in Capable :
         /\ RoutesOf(k, <<"/">> \o BasePath(ReferenceId(k)) \o <<"/login">>) # {}
         /\ RoutesOf(k, <<"/">> \o BasePath(ReferenceId(k)) \o <<"/logout">>) # {}

----------------------------------------------------------------------------
(* Frame of update and delete *)

\* the attribute rows of an id, with their multiplicity
DetailsOf(d, id) == [x \in RowsOf(d, id) |-> d.details[x]]

\* C21: an update or delete called with (class, id) leaves every descriptor
\* that has another id, or that has this id but is stored under another class,
\* in the store with its attribute rows as they were.
C21_OnlyTheClassAndId ==
    [][ (NextCall /\ lastOp'.op \in {"update", "delete"})
        => \A r \in db.configs :
             (r.ID # lastOp'.id \/ r.Class # lastOp'.class)
             => /\ r \in db'.configs
                /\ DetailsOf(db', r.ID) = DetailsOf(db, r.ID) ]_vars

====
